---- MODULE Spec2Model ----
(***************************************************************************)
(* Model of wisdom_app.py: simulate_collective_accuracy and the running    *)
(* average that main derives from its result.                              *)
(*                                                                         *)
(* Real-valued quantities are held exactly, in tenths: an                  *)
(* individual_accuracy of 0.6 is the integer 6, a correlation_strength of  *)
(* -0.8 is -8.  The correlation strengths of the model are those whose     *)
(* sqrt(1 - c^2) is again a whole number of tenths (0, +-0.6, +-0.8, +-1), *)
(* for which the tenths arithmetic agrees with the float arithmetic.       *)
(* A quotient (np.mean, cumsum / arange) is the pair <<numerator,          *)
(* denominator>>.  Arrays are 0-based functions, as in the source.         *)
(***************************************************************************)
EXTENDS Integers, FiniteSets, Sequences, TLC

VARIABLES num_learners, num_simulations, individual_accuracy,
          correlation_strength, pc, i, individual_estimates, choices,
          collective_accuracies, mean_collective, cumulative_accuracies,
          raised

vars == <<num_learners, num_simulations, individual_accuracy,
          correlation_strength, pc, i, individual_estimates, choices,
          collective_accuracies, mean_collective, cumulative_accuracies,
          raised>>

\* Bounds of the model.
MaxLearners == 4
MaxSimulations == 4
MaxCells == 8

\* Arguments the function is called with: the declared domain, and one value
\* outside it for each of num_learners, individual_accuracy and
\* correlation_strength.
LearnerCounts == 0..MaxLearners
SimulationCounts == 1..MaxSimulations
Accuracies == (0..10) \cup {15}
Correlations == {c \in -10..10 : \E r \in 0..10 : r * r = 100 - c * c} \cup {-20}

Trials == 0..(num_simulations - 1)

\* A float is a number of tenths or NaN.
Num(v) == [nan |-> FALSE, val |-> v]
NaN == [nan |-> TRUE, val |-> 0]

\* np.zeros((num_simulations, num_learners), dtype=bool)
np_zeros(rows, cols) == [t \in 0..(rows - 1) |-> [k \in 0..(cols - 1) |-> FALSE]]

\* The values np.random.choice([1, 0], p=[p1, 1 - p1]) can return: an entry of
\* probability zero is never drawn.
ChoiceSupport(p1) == {x \in {0, 1} : IF x = 1 THEN p1 > 0 ELSE 10 - p1 > 0}

\* np.random.choice rejects a probability vector with a negative entry.
ChoiceRejects(p1) == p1 < 0 \/ 10 - p1 < 0

\* One call of np.random.choice(..., size=num_simulations).
ChoiceVectors == [Trials -> ChoiceSupport(individual_accuracy)]

\* The previous outcome taken as 0/1 instead of -1/+1.
Bipolar_Unipolar(x) == IF x THEN 1 ELSE 0

\* 2 * x.astype(int) - 1
Bipolar(x) == 2 * (IF x THEN 1 ELSE 0) - 1

\* np.sqrt(1 - c**2), NaN for a negative argument.
np_sqrt_one_minus_sq(c) ==
    IF 100 - c * c < 0 THEN NaN
    ELSE Num(CHOOSE r \in 0..10 : r * r = 100 - c * c)

\* correlation_strength * (2*prev - 1) + sqrt(1 - correlation_strength**2) * fresh
correlated_value(c, prev, fresh) ==
    LET root == np_sqrt_one_minus_sq(c)
    IN  IF root.nan THEN NaN ELSE Num(c * Bipolar(prev) + root.val * fresh)

\* np.clip(v, 0, 1); NaN passes through.
np_clip(v) ==
    IF v.nan THEN NaN
    ELSE Num(IF v.val < 0 THEN 0 ELSE IF v.val > 10 THEN 10 ELSE v.val)

\* A strict comparison in place of >=.
GreaterEqual_Strict(v, a) == ~v.nan /\ v.val > a

\* v >= individual_accuracy; a comparison with NaN is False.
GreaterEqual(v, a) == ~v.nan /\ v.val >= a

\* The outcome of learner i in one trial.
LearnerOutcome(c, a, prev, fresh) ==
    GreaterEqual(np_clip(correlated_value(c, prev, fresh)), a)

\* np.sum(individual_estimates, axis=1) for one row.
RECURSIVE RowSum(_, _)
RowSum(row, n) ==
    IF n = 0 THEN 0 ELSE RowSum(row, n - 1) + (IF row[n - 1] THEN 1 ELSE 0)

\* The threshold without its + 1: a tie would pass.
MajorityThreshold_Half(n) == n \div 2

\* num_learners // 2 + 1
MajorityThreshold(n) == (n \div 2) + 1

\* The vote with > in place of >=.
MajorityVote_Strict(row, n) == RowSum(row, n) > (n \div 2) + 1

\* np.sum(...) >= num_learners // 2 + 1 for one row.
MajorityVote(row, n) == RowSum(row, n) >= MajorityThreshold(n)

\* np.cumsum(a)[k]
RECURSIVE np_cumsum(_, _)
np_cumsum(a, k) ==
    IF k < 0 THEN 0 ELSE np_cumsum(a, k - 1) + (IF a[k] THEN 1 ELSE 0)

\* A mean that leaves the last trial out of the sum.
np_mean_DropLast(a, n) == <<np_cumsum(a, n - 2), n>>

\* np.mean(a) for a boolean array of n entries.
np_mean(a, n) == <<np_cumsum(a, n - 1), n>>

\* A running average divided by the total number of trials.
RunningAverage_ByTotal(a, n) == [k \in 0..(n - 1) |-> <<np_cumsum(a, k), n>>]

\* np.cumsum(a) / np.arange(1, n + 1)
RunningAverage(a, n) == [k \in 0..(n - 1) |-> <<np_cumsum(a, k), k + 1>>]

Init ==
    /\ num_learners \in LearnerCounts
    /\ num_simulations \in SimulationCounts
    /\ num_learners * num_simulations <= MaxCells
    /\ individual_accuracy \in Accuracies
    /\ correlation_strength \in Correlations
    /\ pc = "call"
    /\ i = 0
    /\ individual_estimates = <<>>
    /\ choices = <<>>
    /\ collective_accuracies = <<>>
    /\ mean_collective = <<0, 1>>
    /\ cumulative_accuracies = <<>>
    /\ raised = "none"

\* Lines 45-46: the grids are allocated first.
Allocate ==
    /\ pc = "call"
    /\ individual_estimates' = np_zeros(num_simulations, num_learners)
    /\ collective_accuracies' = [t \in Trials |-> FALSE]
    /\ pc' = "first"
    /\ UNCHANGED <<num_learners, num_simulations, individual_accuracy,
                   correlation_strength, i, choices, mean_collective,
                   cumulative_accuracies, raised>>

\* Line 49, np.random.choice raising on p = [1.5, -0.5].
FirstLearnerValueError ==
    /\ pc = "first"
    /\ ChoiceRejects(individual_accuracy)
    /\ raised' = "ValueError"
    /\ pc' = "raised"
    /\ UNCHANGED <<num_learners, num_simulations, individual_accuracy,
                   correlation_strength, i, individual_estimates, choices,
                   collective_accuracies, mean_collective,
                   cumulative_accuracies>>

\* Line 49 with no column 0: the right-hand side is drawn, then the
\* assignment to individual_estimates[:, 0] raises.
FirstLearnerIndexError ==
    /\ pc = "first"
    /\ ~ChoiceRejects(individual_accuracy)
    /\ num_learners = 0
    /\ \E drawn \in ChoiceVectors : choices' = Append(choices, drawn)
    /\ raised' = "IndexError"
    /\ pc' = "raised"
    /\ UNCHANGED <<num_learners, num_simulations, individual_accuracy,
                   correlation_strength, i, individual_estimates,
                   collective_accuracies, mean_collective,
                   cumulative_accuracies>>

\* Line 49: learner 0 of every trial is its own draw.
FirstLearner ==
    /\ pc = "first"
    /\ ~ChoiceRejects(individual_accuracy)
    /\ num_learners >= 1
    /\ \E drawn \in ChoiceVectors :
          /\ choices' = Append(choices, drawn)
          /\ individual_estimates' =
                [t \in Trials |->
                    [individual_estimates[t] EXCEPT ![0] = (drawn[t] = 1)]]
    /\ i' = 1
    /\ pc' = "loop"
    /\ UNCHANGED <<num_learners, num_simulations, individual_accuracy,
                   correlation_strength, collective_accuracies,
                   mean_collective, cumulative_accuracies, raised>>

\* Lines 52-57: one pass of the loop, column i from column i-1.
NextLearner ==
    /\ pc = "loop"
    /\ i < num_learners
    /\ \E drawn \in ChoiceVectors :
          /\ choices' = Append(choices, drawn)
          /\ individual_estimates' =
                [t \in Trials |->
                    [individual_estimates[t] EXCEPT ![i] =
                        LearnerOutcome(correlation_strength,
                                       individual_accuracy,
                                       individual_estimates[t][i - 1],
                                       drawn[t])]]
    /\ i' = i + 1
    /\ UNCHANGED <<num_learners, num_simulations, individual_accuracy,
                   correlation_strength, pc, collective_accuracies,
                   mean_collective, cumulative_accuracies, raised>>

\* Line 60: the majority decision of every trial.
Vote ==
    /\ pc = "loop"
    /\ i >= num_learners
    /\ collective_accuracies' =
          [t \in Trials |-> MajorityVote(individual_estimates[t], num_learners)]
    /\ pc' = "mean"
    /\ UNCHANGED <<num_learners, num_simulations, individual_accuracy,
                   correlation_strength, i, individual_estimates, choices,
                   mean_collective, cumulative_accuracies, raised>>

\* Lines 63-65: the mean, and the return.
Mean ==
    /\ pc = "mean"
    /\ mean_collective' = np_mean(collective_accuracies, num_simulations)
    /\ pc' = "returned"
    /\ UNCHANGED <<num_learners, num_simulations, individual_accuracy,
                   correlation_strength, i, individual_estimates, choices,
                   collective_accuracies, cumulative_accuracies, raised>>

\* Line 87 of main: the convergence sequence.
Cumulate ==
    /\ pc = "returned"
    /\ cumulative_accuracies' =
          RunningAverage(collective_accuracies, num_simulations)
    /\ pc' = "done"
    /\ UNCHANGED <<num_learners, num_simulations, individual_accuracy,
                   correlation_strength, i, individual_estimates, choices,
                   collective_accuracies, mean_collective, raised>>

Next ==
    \/ Allocate
    \/ FirstLearnerValueError
    \/ FirstLearnerIndexError
    \/ FirstLearner
    \/ NextLearner
    \/ Vote
    \/ Mean
    \/ Cumulate

Spec == Init /\ [][Next]_vars

(***************************************************************************)
(* Properties                                                              *)
(***************************************************************************)

\* The declared domain of the four arguments.
ValidParameters ==
    /\ num_learners >= 1
    /\ num_simulations >= 1
    /\ individual_accuracy \in 0..10
    /\ correlation_strength \in -10..10

\* The number of correct learners in trial t.
CorrectCount(t) ==
    Cardinality({k \in 0..(num_learners - 1) : individual_estimates[t][k]})

\* Equality of two quotients <<numerator, denominator>>.
SameQuotient(p, q) == p[1] * q[2] = q[1] * p[2]

Voted == pc \in {"mean", "returned", "done"}
Returned == pc \in {"returned", "done"}

\* C1: in every trial the collective outcome is true iff the number of
\* correct learners is at least floor(num_learners/2) + 1, for every
\* num_learners >= 1; a tie with an even num_learners is marked false.
C1_StrictMajority ==
    (Voted /\ num_learners >= 1) =>
        \A t \in Trials :
            /\ collective_accuracies[t] <=>
                   (CorrectCount(t) >= (num_learners \div 2) + 1)
            /\ (2 * CorrectCount(t) = num_learners) => ~collective_accuracies[t]

C1_Witness ==
    /\ pc = "done"
    /\ num_learners = 4
    /\ \E t \in Trials : CorrectCount(t) = 2 /\ ~collective_accuracies[t]
    /\ \E t \in Trials : CorrectCount(t) = 3 /\ collective_accuracies[t]

\* C2: a call with individual_accuracy = 1.5, correlation_strength = -2.0 or
\* num_learners = 0 fails with InvalidParameter, returns no result, and fails
\* before any grid is allocated or any random draw is made.
C2_InvalidParameterFirst ==
    ~ValidParameters =>
        /\ individual_estimates = <<>>
        /\ choices = <<>>
        /\ ~Returned
        /\ (pc = "raised" => raised = "InvalidParameter")

\* C3: for valid parameters the returned outcomes have length exactly
\* num_simulations and the returned mean is exactly (number of true
\* outcomes) / num_simulations, which lies in [0, 1].
C3_ShapeAndMean ==
    (Returned /\ ValidParameters) =>
        /\ DOMAIN collective_accuracies = 0..(num_simulations - 1)
        /\ Cardinality(DOMAIN collective_accuracies) = num_simulations
        /\ mean_collective =
               <<Cardinality({t \in Trials : collective_accuracies[t]}),
                 num_simulations>>
        /\ 0 <= mean_collective[1]
        /\ mean_collective[1] <= mean_collective[2]

C3_Witness ==
    /\ pc = "returned"
    /\ ValidParameters
    /\ num_simulations = 3
    /\ collective_accuracies[2]
    /\ mean_collective = <<2, 3>>

\* C4: for correlation_strength = 1, any num_learners >= 1 and any
\* individual_accuracy in [0, 1], every learner's outcome in a trial equals
\* learner 0's, and so does the collective outcome of the trial.
C4_PerfectCorrelationCopies ==
    (Voted /\ ValidParameters /\ correlation_strength = 10) =>
        \A t \in Trials :
            /\ \A k \in 0..(num_learners - 1) :
                   individual_estimates[t][k] = individual_estimates[t][0]
            /\ collective_accuracies[t] = individual_estimates[t][0]

\* C5: for correlation_strength = -1 and num_learners >= 2, the outcome of
\* every learner i >= 1 in a trial is the opposite of learner 0's.
C5_AllOppositeOfFirst ==
    (Voted /\ ValidParameters /\ correlation_strength = -10
           /\ num_learners >= 2) =>
        \A t \in Trials : \A k \in 1..(num_learners - 1) :
            individual_estimates[t][k] = ~individual_estimates[t][0]

\* C6: for num_learners = 1 and any valid correlation_strength and
\* individual_accuracy, the loop over the remaining learners does not run
\* (learner 0's draw is the only one) and the returned outcomes are pointwise
\* learner 0's draws.
C6_SingleLearner ==
    (Returned /\ ValidParameters /\ num_learners = 1) =>
        /\ Len(choices) = 1
        /\ i = 1
        /\ \A t \in Trials : collective_accuracies[t] <=> (choices[1][t] = 1)

C6_Witness ==
    /\ pc = "done"
    /\ num_learners = 1
    /\ correlation_strength = -10
    /\ num_simulations >= 2
    /\ choices[1][0] = 1 /\ collective_accuracies[0]
    /\ choices[1][1] = 0 /\ ~collective_accuracies[1]

\* C7: for correlation_strength = 0 and any individual_accuracy in [0, 1],
\* the outcome of every learner i >= 1 in every trial is true exactly when
\* the learner's own fresh draw is a success, whatever learner i-1's outcome.
C7_IndependentDraws ==
    (ValidParameters /\ correlation_strength = 0
                     /\ pc \in {"loop", "mean", "returned", "done"}) =>
        \A t \in Trials : \A k \in 1..(i - 1) :
            individual_estimates[t][k] <=> (choices[k + 1][t] = 1)

\* C8: the convergence sequence is the running average: entry k is (number
\* of true outcomes among trials 0..k) / (k + 1); for the outcomes
\* [true, false, true, true] it is [1, 1/2, 2/3, 3/4]; its last entry equals
\* the returned mean.
C8_RunningAverage ==
    (pc = "done" /\ ValidParameters) =>
        /\ DOMAIN cumulative_accuracies = 0..(num_simulations - 1)
        /\ \A k \in Trials :
               cumulative_accuracies[k] =
                   <<Cardinality({j \in 0..k : collective_accuracies[j]}), k + 1>>
        /\ SameQuotient(cumulative_accuracies[num_simulations - 1],
                        mean_collective)
        /\ (collective_accuracies = [k \in 0..3 |-> k # 1]) =>
               /\ SameQuotient(cumulative_accuracies[0], <<1, 1>>)
               /\ SameQuotient(cumulative_accuracies[1], <<1, 2>>)
               /\ SameQuotient(cumulative_accuracies[2], <<2, 3>>)
               /\ SameQuotient(cumulative_accuracies[3], <<3, 4>>)

C8_Witness ==
    /\ pc = "done"
    /\ ValidParameters
    /\ num_simulations = 4
    /\ collective_accuracies = [k \in 0..3 |-> k # 1]

====
